---- MODULE Spec2Model ----
(***************************************************************************)
(* Model of the manual-mode page controller ManualModeApp: its session     *)
(* fields, the DOM elements it reads and writes, the requests it has in    *)
(* flight, and one action per event handler and per resumption of a        *)
(* handler after its awaited fetch settles.                                *)
(***************************************************************************)
EXTENDS Naturals, Sequences, FiniteSets, TLC

(* ---------------------------- bounds ----------------------------------- *)

\* number of requests the page issues in one run
MaxRequests == 3
\* number of requests the page issues in one long run
MaxLongRequests == 4
\* number of requests the page issues in one short run
MaxShortRequests == 2
\* number of requests in flight at the same time
MaxInFlight == 2
\* number of lines of a detailed analysis
MaxLines == 3

(* ------------------------- values and inputs --------------------------- *)

\* how many files the user can have picked in the file input: none or several
FileSelections == {0, 2}

\* JavaScript null and undefined
Null == "<null>"
Undefined == "<undefined>"

\* what the user can have typed into the gitUrl, accessToken and manualCode
\* fields when Analyze is clicked, each value a character sequence: nothing,
\* blanks only, a token only, padded code, a padded URL with a token
AnalyzeInputs ==
    {<< << >>, << >>, << >> >>,
     << <<" ">>, << >>, <<" ">> >>,
     << << >>, <<"t">>, << >> >>,
     << << >>, << >>, <<" ", "c", " ">> >>,
     << <<" ", "h", " ">>, <<"t">>, <<" ">> >>}

\* the characters \s matches and trim removes
WhiteSpace == {" ", "\t", "\n"}

\* String.prototype.trim on a character sequence
TrimLeft(s) ==
    IF \A i \in DOMAIN s : s[i] \in WhiteSpace THEN << >>
    ELSE SubSeq(s, CHOOSE k \in DOMAIN s :
                       s[k] \notin WhiteSpace /\ \A j \in 1 .. k - 1 : s[j] \in WhiteSpace,
                Len(s))

TrimRight(s) ==
    IF \A i \in DOMAIN s : s[i] \in WhiteSpace THEN << >>
    ELSE SubSeq(s, 1, CHOOSE k \in DOMAIN s :
                          s[k] \notin WhiteSpace /\ \A j \in k + 1 .. Len(s) : s[j] \in WhiteSpace)

Trim(s) == TrimRight(TrimLeft(s))

\* JavaScript truthiness of the values that occur here
Falsy(v) == v \in {Null, Undefined, ""}

\* !s for a character sequence: the empty string is falsy
Empty(s) == Len(s) = 0

\* a ?? b: only a missing value falls through, an empty text is kept
Or_NullishOnly(a, b) == IF a \in {Null, Undefined} THEN b ELSE a

\* a || b
Or(a, b) == IF Falsy(a) THEN b ELSE a

\* obj.field: a property the object does not have reads as undefined
Get(obj, field) == IF field \in DOMAIN obj THEN obj[field] ELSE Undefined

\* what the server answers on success: an analysis and the key it is cached under
Results == {[analysis |-> "analysis1", cache_key |-> "key1"],
            [analysis |-> "analysis2", cache_key |-> "key2"]}

\* the texts a success:false body can carry in its error field
ErrorValues == {"", "bad url"}

\* the label of the document button in the page's markup
OriginalLabel == "Generate Document"
GeneratingLabel == "Generating Document..."

\* what a fetch can settle to: a rejection (network failure), or a response
\* with a 2xx or non-2xx status whose body is JSON or not
Rejection == [kind |-> "reject", message |-> "Failed to fetch"]

\* success:false bodies, without an error field or with one
JsonFailures ==
    {[json |-> TRUE, success |-> FALSE]} \cup
    {[json |-> TRUE, success |-> FALSE, error |-> e] : e \in ErrorValues}

NonJson == [json |-> FALSE, message |-> "Unexpected token < in JSON"]

AnalysisBodies ==
    {[json |-> TRUE, success |-> TRUE, analysis |-> r.analysis, cache_key |-> r.cache_key] :
        r \in Results}

TestBodies ==
    {[json |-> TRUE, success |-> TRUE, test_files |-> <<"test_a.py">>,
      download_url |-> "/download/tests.zip", total_files |-> 1]}

DocumentBodies ==
    {[json |-> TRUE, success |-> TRUE, download_url |-> "/download/summary.docx",
      filename |-> "summary.docx"]}

HttpResponses(successBodies) ==
    {[kind |-> "http", ok |-> ok, body |-> b] :
        ok \in BOOLEAN, b \in successBodies \cup JsonFailures \cup {NonJson}}

Settlements(successBodies) == {Rejection} \cup HttpResponses(successBodies)

(* ----------------------- analysis text formatter ----------------------- *)

\* Texts are sequences of characters.  The character U+2022 (the round
\* bullet) is written BulletChar.
BulletChar == "U+2022"
NewLine == "\n"

Digits == {"0", "1", "2", "3", "4", "5", "6", "7", "8", "9"}
UpperCase == <<"A", "B", "C", "D", "E", "F", "G", "H", "I", "J", "K", "L", "M",
               "N", "O", "P", "Q", "R", "S", "T", "U", "V", "W", "X", "Y", "Z">>
LowerCase == <<"a", "b", "c", "d", "e", "f", "g", "h", "i", "j", "k", "l", "m",
               "n", "o", "p", "q", "r", "s", "t", "u", "v", "w", "x", "y", "z">>
Range(f) == {f[i] : i \in DOMAIN f}
\* \w
WordChars == Range(UpperCase) \cup Range(LowerCase) \cup Digits \cup {"_"}
\* [A-Z\s&]
HeaderChars == Range(UpperCase) \cup WhiteSpace \cup {"&"}

toLowerCase(c) ==
    IF c \in Range(UpperCase)
    THEN LowerCase[CHOOSE i \in DOMAIN UpperCase : UpperCase[i] = c] ELSE c
toUpperCase(c) ==
    IF c \in Range(LowerCase)
    THEN UpperCase[CHOOSE i \in DOMAIN LowerCase : LowerCase[i] = c] ELSE c

Min(a, b) == IF a < b THEN a ELSE b
Drop(s, n) == SubSeq(s, n + 1, Len(s))
startsWith(s, p) == Len(s) >= Len(p) /\ SubSeq(s, 1, Len(p)) = p

\* number of leading characters of s that are in set
Span(s, set) ==
    IF \A i \in DOMAIN s : s[i] \in set THEN Len(s)
    ELSE (CHOOSE k \in DOMAIN s : s[k] \notin set /\ \A j \in 1 .. k - 1 : s[j] \in set) - 1

\* length of the match of /^\d+\./ at the start of s, 0 when there is none
OrdinalLen(s) ==
    LET d == Span(s, Digits)
    IN  IF d > 0 /\ Len(s) > d /\ s[d + 1] = "." THEN d + 1 ELSE 0

\* length of the match of /^\d+\.\s*/
OrdinalSpaceLen(s) ==
    IF OrdinalLen(s) = 0 THEN 0
    ELSE OrdinalLen(s) + Span(Drop(s, OrdinalLen(s)), WhiteSpace)

\* String.prototype.split(sep)
RECURSIVE split(_, _)
split(s, sep) ==
    IF \A i \in DOMAIN s : s[i] # sep THEN <<s>>
    ELSE LET i == CHOOSE k \in DOMAIN s : s[k] = sep /\ \A j \in 1 .. k - 1 : s[j] # sep
         IN  <<SubSeq(s, 1, i - 1)>> \o split(Drop(s, i), sep)

\* /^\d+\.\s*\*\*/
NumberedBold(line) ==
    /\ OrdinalLen(line) > 0
    /\ startsWith(Drop(line, OrdinalSpaceLen(line)), <<"*", "*">>)

\* /^\d+\.\s*[A-Z\s&]{10,}$/
NumberedCaps(line) ==
    /\ OrdinalLen(line) > 0
    /\ Len(line) - OrdinalLen(line) >= 10
    /\ \A i \in OrdinalLen(line) + 1 .. Len(line) : line[i] \in HeaderChars

\* /^#{1,3}\s*\d+\./
NumberedHeading(line) ==
    LET h == Span(line, {"#"})
        rest == Drop(line, h)
    IN  /\ h \in 1 .. 3
        /\ OrdinalLen(Drop(rest, Span(rest, WhiteSpace))) > 0

\* /^[A-Z\s&]{15,}$/
StandaloneCaps(line) ==
    /\ Len(line) >= 15
    /\ \A i \in DOMAIN line : line[i] \in HeaderChars

isSectionHeader(line) ==
    NumberedBold(line) \/ NumberedCaps(line) \/ NumberedHeading(line) \/ StandaloneCaps(line)

\* .replace(/\*\*/g, ''): the markers are taken from left to right
RECURSIVE RemoveBoldMarkers(_)
RemoveBoldMarkers(s) ==
    LET marks == {k \in 1 .. Len(s) - 1 : s[k] = "*" /\ s[k + 1] = "*"}
    IN  IF marks = {} THEN s
        ELSE LET k == CHOOSE m \in marks : \A n \in marks : m <= n
             IN  SubSeq(s, 1, k - 1) \o RemoveBoldMarkers(Drop(s, k + 1))

\* .replace(/#{1,3}\s*/, ''): the first run of up to three # and the
\* whitespace after it
RemoveFirstHeadingMarker(s) ==
    IF \A i \in DOMAIN s : s[i] # "#" THEN s
    ELSE LET i == CHOOSE k \in DOMAIN s : s[k] = "#" /\ \A j \in 1 .. k - 1 : s[j] # "#"
             h == Min(3, Span(Drop(s, i - 1), {"#"}))
             w == Span(Drop(s, i - 1 + h), WhiteSpace)
         IN  SubSeq(s, 1, i - 1) \o Drop(s, i - 1 + h + w)

\* .toLowerCase().replace(/\b\w/g, l => l.toUpperCase())
TitleCase(s) ==
    LET low == [i \in DOMAIN s |-> toLowerCase(s[i])]
    IN  [i \in DOMAIN s |->
            IF low[i] \in WordChars /\ (i = 1 \/ low[i - 1] \notin WordChars)
            THEN toUpperCase(low[i]) ELSE low[i]]

cleanSectionTitle(title) ==
    LET unnumbered == Drop(title, OrdinalSpaceLen(title))
        unbold == RemoveBoldMarkers(unnumbered)
        unmarked == RemoveFirstHeadingMarker(unbold)
        spaced == [i \in DOMAIN unmarked |-> IF unmarked[i] = "_" THEN " " ELSE unmarked[i]]
    IN  TitleCase(Trim(spaced))

\* the tags of the emphasis spans, as characters of the cleaned text
StrongOpen == <<"<", "s", "t", "r", "o", "n", "g", ">">>
StrongClose == <<"<", "/", "s", "t", "r", "o", "n", "g", ">">>
EmOpen == <<"<", "e", "m", ">">>
EmClose == <<"<", "/", "e", "m", ">">>

\* the block tags and the placeholder paragraphs of the formatted content,
\* each one element of the output
UlOpen == "<ul class=\"analysis-list\">"
UlClose == "</ul>"
LiOpen == "<li>"
LiClose == "</li>"
POpen == "<p>"
PClose == "</p>"
NoSpecificAnalysis == "<p>No specific analysis available for this section.</p>"
NoDetailedAnalysis == "<p>No detailed analysis available.</p>"

\* .replace(/#{1,6}\s*/g, ''): each run of up to six # goes with the
\* whitespace after it, newlines included
RECURSIVE StripHeadingMarkers(_)
StripHeadingMarkers(s) ==
    IF \A i \in DOMAIN s : s[i] # "#" THEN s
    ELSE LET i == CHOOSE k \in DOMAIN s : s[k] = "#" /\ \A j \in 1 .. k - 1 : s[j] # "#"
             rest == Drop(s, i - 1 + Min(6, Span(Drop(s, i - 1), {"#"})))
         IN  SubSeq(s, 1, i - 1) \o StripHeadingMarkers(Drop(rest, Span(rest, WhiteSpace)))

\* where the span opened at position i of s by a marker of n stars closes:
\* at the nearest later marker on the same line (0: it does not close)
SpanClose(s, i, n) ==
    LET closes == {j \in i + n .. Len(s) - n + 1 :
                      /\ \A k \in j .. j + n - 1 : s[k] = "*"
                      /\ \A k \in i + n .. j - 1 : s[k] # NewLine}
    IN  IF closes = {} THEN 0 ELSE CHOOSE j \in closes : \A k \in closes : j <= k

\* .replace(/\*\*(.*?)\*\*/g, '<strong>$1</strong>') for n = 2 and
\* .replace(/\*(.*?)\*/g, '<em>$1</em>') for n = 1: the leftmost marker
\* that closes opens a span, and the search goes on after its closing marker
RECURSIVE ReplaceSpans(_, _, _, _)
ReplaceSpans(s, n, open, close) ==
    LET opens == {i \in 1 .. Len(s) - n + 1 :
                     (\A k \in i .. i + n - 1 : s[k] = "*") /\ SpanClose(s, i, n) > 0}
    IN  IF opens = {} THEN s
        ELSE LET i == CHOOSE m \in opens : \A k \in opens : m <= k
                 j == SpanClose(s, i, n)
             IN  SubSeq(s, 1, i - 1) \o open \o SubSeq(s, i + n, j - 1) \o close
                     \o ReplaceSpans(Drop(s, j + n - 1), n, open, close)

\* line.startsWith('-') || line.startsWith('•') || line.match(/^\d+\./)
IsListLine(line) == Head(line) \in {"-", BulletChar} \/ OrdinalLen(line) > 0

\* line.replace(/^[-•]\s*/, '').replace(/^\d+\.\s*/, '')
ListItem(line) ==
    LET unbulleted == IF Head(line) \in {"-", BulletChar}
                      THEN Drop(line, 1 + Span(Tail(line), WhiteSpace))
                      ELSE line
    IN  Drop(unbulleted, OrdinalSpaceLen(unbulleted))

\* variant: an open list is never closed
CloseOpenList_Never(inList) == << >>

\* if (inList) formattedContent += '</ul>', before a paragraph line and after
\* the last line
CloseOpenList(inList) == IF inList THEN <<UlClose>> ELSE << >>

\* the loop of formatSectionContent over the remaining lines
RECURSIVE FormatLines(_, _)
FormatLines(lines, inList) ==
    IF lines = << >> THEN CloseOpenList(inList)
    ELSE LET line == Trim(Head(lines))
         IN  IF line = << >> THEN FormatLines(Tail(lines), inList)
             ELSE IF IsListLine(line)
                  THEN (IF inList THEN << >> ELSE <<UlOpen>>)
                           \o <<LiOpen>> \o ListItem(line) \o <<LiClose>>
                           \o FormatLines(Tail(lines), TRUE)
                  ELSE CloseOpenList(inList)
                           \o (IF Len(line) > 5 THEN <<POpen>> \o line \o <<PClose>>
                               ELSE << >>)
                           \o FormatLines(Tail(lines), FALSE)

formatSectionContent(content) ==
    IF Trim(content) = << >> THEN <<NoSpecificAnalysis>>
    ELSE LET cleanContent ==
                 Trim(ReplaceSpans(ReplaceSpans(StripHeadingMarkers(content),
                                                2, StrongOpen, StrongClose),
                                   1, EmOpen, EmClose))
             lines == SelectSeq(split(cleanContent, NewLine), LAMBDA l : Trim(l) # << >>)
             formattedContent == FormatLines(lines, FALSE)
         IN  IF formattedContent = << >> THEN <<NoDetailedAnalysis>>
             ELSE formattedContent

\* 'General Analysis'
GeneralAnalysis ==
    <<"G", "e", "n", "e", "r", "a", "l", " ", "A", "n", "a", "l", "y", "s", "i", "s">>

\* the section pushed also when the buffer is empty
FlushSection_Always(sections, title, content) ==
    Append(sections, [title |-> title, content |-> formatSectionContent(content)])

\* the section pushed when the buffer has content
FlushSection(sections, title, content) ==
    IF Trim(content) # << >>
    THEN Append(sections, [title |-> title, content |-> formatSectionContent(content)])
    ELSE sections

\* the loop of parseDetailedAnalysis over the remaining lines
RECURSIVE ParseLines(_, _, _, _)
ParseLines(lines, sections, title, content) ==
    IF lines = << >> THEN FlushSection(sections, title, content)
    ELSE LET line == Trim(Head(lines))
         IN  IF isSectionHeader(line)
             THEN ParseLines(Tail(lines), FlushSection(sections, title, content),
                             cleanSectionTitle(line), << >>)
             ELSE ParseLines(Tail(lines), sections, title,
                             IF line # << >> /\ Head(line) # "#"
                             THEN content \o line \o <<NewLine>> ELSE content)

parseDetailedAnalysis(detailed) ==
    ParseLines(split(detailed, NewLine), << >>, GeneralAnalysis, << >>)

\* the collapsible blocks displayAnalysis builds from the parsed sections:
\* one per section whose content is not blank, numbered by the section's index
renderSections(parsedSections) ==
    LET blocks == [i \in DOMAIN parsedSections |->
                      [id |-> i - 1, title |-> parsedSections[i].title,
                       body |-> parsedSections[i].content]]
    IN  SelectSeq(blocks, LAMBDA b : Trim(b.body) # << >>)

\* the lines a detailed analysis is made of here: the four header shapes
\* ("## 1. Title", "1. **Risks**", "2. ISSUES FOUND", "SECURITY & RISK"), two
\* paragraphs ("Good code.", "**bold** text"), a short line ("ok"), a line
\* starting with # ("# note") and two dash items ("- too long",
\* "- 1.5x faster")
LineSamples ==
    {<<"#", "#", " ", "1", ".", " ", "T", "i", "t", "l", "e">>,
     <<"1", ".", " ", "*", "*", "R", "i", "s", "k", "s", "*", "*">>,
     <<"2", ".", " ", "I", "S", "S", "U", "E", "S", " ", "F", "O", "U", "N", "D">>,
     <<"S", "E", "C", "U", "R", "I", "T", "Y", " ", "&", " ", "R", "I", "S", "K">>,
     <<"G", "o", "o", "d", " ", "c", "o", "d", "e", ".">>,
     <<"*", "*", "b", "o", "l", "d", "*", "*", " ", "t", "e", "x", "t">>,
     <<"o", "k">>,
     <<"#", " ", "n", "o", "t", "e">>,
     <<"-", " ", "t", "o", "o", " ", "l", "o", "n", "g">>,
     <<"-", " ", "1", ".", "5", "x", " ", "f", "a", "s", "t", "e", "r">>}

\* "1. OVERVIEW\nGood code.\n2. ISSUES\n- too long\n- no tests\n"
ScenarioText ==
    <<"1", ".", " ", "O", "V", "E", "R", "V", "I", "E", "W", "\n",
     "G", "o", "o", "d", " ", "c", "o", "d", "e", ".", "\n",
     "2", ".", " ", "I", "S", "S", "U", "E", "S", "\n",
     "-", " ", "t", "o", "o", " ", "l", "o", "n", "g", "\n",
     "-", " ", "n", "o", " ", "t", "e", "s", "t", "s", "\n">>

\* lines joined by newlines
RECURSIVE JoinLines(_)
JoinLines(ls) ==
    IF ls = << >> THEN << >>
    ELSE IF Len(ls) = 1 THEN Head(ls)
    ELSE Head(ls) \o <<NewLine>> \o JoinLines(Tail(ls))

\* the detailed_analysis texts the server can answer with
DetailedTexts ==
    {ScenarioText} \cup
    {JoinLines(ls) : ls \in UNION {[1 .. n -> LineSamples] : n \in 0 .. MaxLines}}

(* ------------------------------ state ---------------------------------- *)

VARIABLES
    currentAnalysis,      \* this.currentAnalysis
    currentFiles,         \* this.currentFiles
    currentCacheKey,      \* this.currentCacheKey
    fileUpload,           \* number of files held by the #fileUpload input
    analysisResult,       \* contents of the #analysisResult panel
    testResults,          \* contents of the #testResults panel
    loadingOverlay,       \* style.display of #loadingOverlay
    generateTestBtn,      \* [disabled] of #generateTestBtn
    generateDocumentBtn,  \* [disabled, loading, innerHTML] of #generateDocumentBtn
    documentSuccess,      \* the .document-success banners of the document section, in
                          \* document order, each named by the request that created it
    timers,               \* banners whose 5 s removal timer is pending
    download,             \* the file last downloaded through the temporary link
    requests,             \* fetches in flight, each with its suspended handler's locals
    nextId,               \* issue number of the next request
    applied,              \* the highest issue number of an analyze/upload request whose
                          \* result was applied (latest), and whether the result held
                          \* now is that of a request issued before it (stale)
    lastEvent,            \* the handler that ran last, and what its fetch settled to
    detailedAnalysis,     \* analysis.detailed_analysis of the analysis being displayed
    parsedSections,       \* parsedSections of displayAnalysis
    sectionsHtml          \* the blocks of sectionsHtml of displayAnalysis

vars == <<currentAnalysis, currentFiles, currentCacheKey, fileUpload, analysisResult,
          testResults, loadingOverlay, generateTestBtn, generateDocumentBtn,
          documentSuccess, timers, download, requests, nextId, applied, lastEvent,
          detailedAnalysis, parsedSections, sectionsHtml>>

page == <<currentAnalysis, currentFiles, currentCacheKey, fileUpload, analysisResult,
          testResults, loadingOverlay, generateTestBtn, generateDocumentBtn,
          documentSuccess, timers, download, requests, nextId, applied, lastEvent>>
formatter == <<detailedAnalysis, parsedSections, sectionsHtml>>

session == <<currentAnalysis, currentFiles, currentCacheKey>>
banner == <<documentSuccess, timers, download>>

\* the bounds of a run that issues at most limit requests
WithinBounds(limit) == nextId <= limit + 1 /\ Cardinality(requests) <= MaxInFlight

(* --------------------------- rendering --------------------------------- *)

\* the error box added under an analysis that stays on the panel
showError_KeepsAnalysis(message) ==
    IF analysisResult.kind = "analysis"
    THEN [kind |-> "analysis+error", content |-> message]
    ELSE [kind |-> "error", content |-> message]

\* showError: the panel's contents are replaced by the error box
showError(message) == [kind |-> "error", content |-> message]

\* the overlay shown and never hidden again
showLoading_NeverHides(show) == "flex"

\* showLoading
showLoading(show) == IF show THEN "flex" ELSE "none"

\* displayAnalysis: the panel's contents are replaced by the rendered analysis
displayAnalysis(analysis) == [kind |-> "analysis", content |-> analysis]

\* displayTestResults
displayTestResults(testFiles, downloadUrl, totalFiles) ==
    [kind |-> "tests", test_files |-> testFiles, download_url |-> downloadUrl,
     total_files |-> totalFiles]

(* ------------------------ settling of a fetch -------------------------- *)

\* the success branch taken for 2xx responses only
Outcome_OkOnly(s) ==
    IF s.kind = "reject" THEN "thrown"
    ELSE IF ~s.body.json THEN "thrown"
    ELSE IF s.body.success /\ s.ok THEN "success"
    ELSE "failure"

\* Where control goes after `await fetch(...)` and `await response.json()`:
\* a rejected fetch and a body that is not JSON throw into the catch block,
\* otherwise result.success picks the branch.  The status is not looked at.
Outcome(s) ==
    IF s.kind = "reject" THEN "thrown"
    ELSE IF ~s.body.json THEN "thrown"
    ELSE IF s.body.success THEN "success"
    ELSE "failure"

\* error.message in the catch block
ErrorMessage(s) == IF s.kind = "reject" THEN s.message ELSE s.body.message

(* ----------------------------- Init ------------------------------------ *)

\* The constructor sets the three session fields; the elements are as the
\* page's markup leaves them.  The markup is not part of the sources, so the
\* two generate buttons start either enabled or disabled.
Init ==
    /\ currentAnalysis = Null
    /\ currentFiles = << >>
    /\ currentCacheKey = Null
    /\ fileUpload = 0
    /\ analysisResult = [kind |-> "initial", content |-> ""]
    /\ testResults = [kind |-> "initial"]
    /\ loadingOverlay = "none"
    /\ generateTestBtn \in {[disabled |-> d] : d \in BOOLEAN}
    /\ generateDocumentBtn \in
          {[disabled |-> d, loading |-> FALSE, innerHTML |-> OriginalLabel] : d \in BOOLEAN}
    /\ documentSuccess = << >>
    /\ timers = {}
    /\ download = Null
    /\ requests = {}
    /\ nextId = 1
    /\ applied = [latest |-> 0, stale |-> FALSE]
    /\ lastEvent = [handler |-> "constructor", phase |-> "invoked"]
    /\ detailedAnalysis = Null
    /\ parsedSections = Null
    /\ sectionsHtml = Null

\* the page after construction, about to display an analysis whose
\* detailed_analysis is one of the texts
InitFormat ==
    /\ currentAnalysis = Null
    /\ currentFiles = << >>
    /\ currentCacheKey = Null
    /\ fileUpload = 0
    /\ analysisResult = [kind |-> "initial", content |-> ""]
    /\ testResults = [kind |-> "initial"]
    /\ loadingOverlay = "none"
    /\ generateTestBtn \in {[disabled |-> d] : d \in BOOLEAN}
    /\ generateDocumentBtn \in
          {[disabled |-> d, loading |-> FALSE, innerHTML |-> OriginalLabel] : d \in BOOLEAN}
    /\ documentSuccess = << >>
    /\ timers = {}
    /\ download = Null
    /\ requests = {}
    /\ nextId = 1
    /\ applied = [latest |-> 0, stale |-> FALSE]
    /\ lastEvent = [handler |-> "constructor", phase |-> "invoked"]
    /\ detailedAnalysis \in DetailedTexts
    /\ parsedSections = Null
    /\ sectionsHtml = Null

(* --------------------------- handleAnalyze ----------------------------- *)

\* the validation also counting the access token as provided code
NoCodeProvided_TokenCounts(gitUrl, accessToken, manualCode, files) ==
    Empty(gitUrl) /\ Empty(accessToken) /\ Empty(manualCode) /\ Len(files) = 0

\* the local validation of handleAnalyze
NoCodeProvided(gitUrl, accessToken, manualCode, files) ==
    Empty(gitUrl) /\ Empty(manualCode) /\ Len(files) = 0

handleAnalyze(gitUrlValue, accessTokenValue, manualCodeValue) ==
    LET gitUrl == Trim(gitUrlValue)
        accessToken == Trim(accessTokenValue)
        manualCode == Trim(manualCodeValue)
    IN
    /\ lastEvent' = [handler |-> "handleAnalyze", phase |-> "invoked"]
    /\ IF NoCodeProvided(gitUrl, accessToken, manualCode, currentFiles)
       THEN /\ analysisResult' =
                   showError("Please provide code via Git URL, manual input, or file upload.")
            /\ UNCHANGED <<loadingOverlay, requests, nextId>>
       ELSE /\ loadingOverlay' = showLoading(TRUE)
            /\ requests' = requests \cup
                   {[id |-> nextId, op |-> "analyze",
                     body |-> [git_url |-> gitUrl, access_token |-> accessToken,
                               manual_code |-> manualCode]]}
            /\ nextId' = nextId + 1
            /\ UNCHANGED analysisResult
    /\ UNCHANGED <<session, fileUpload, testResults, generateTestBtn, generateDocumentBtn,
                   banner, applied>>

\* the success branch dropping the result of a request issued before the
\* latest one applied
storeAnalysis_IgnoresStale(r, result) ==
    IF r.id < applied.latest
    THEN UNCHANGED <<currentAnalysis, currentCacheKey, analysisResult, generateDocumentBtn,
                     generateTestBtn, applied>>
    ELSE /\ currentAnalysis' = Get(result, "analysis")
         /\ currentCacheKey' = Get(result, "cache_key")
         /\ analysisResult' = displayAnalysis(Get(result, "analysis"))
         /\ generateDocumentBtn' = [generateDocumentBtn EXCEPT !.disabled = FALSE]
         /\ generateTestBtn' = [disabled |-> FALSE]
         /\ applied' = [latest |-> r.id, stale |-> FALSE]

\* the success branch forgetting to store the cache key
storeAnalysis_KeyNotStored(r, result) ==
    /\ currentAnalysis' = Get(result, "analysis")
    /\ UNCHANGED currentCacheKey
    /\ analysisResult' = displayAnalysis(Get(result, "analysis"))
    /\ generateDocumentBtn' = [generateDocumentBtn EXCEPT !.disabled = FALSE]
    /\ generateTestBtn' = [disabled |-> FALSE]
    /\ applied' = [latest |-> IF r.id > applied.latest THEN r.id ELSE applied.latest,
                   stale |-> r.id < applied.latest]

\* the success branch storing the cache key and leaving the analysis field
storeAnalysis_AnalysisNotStored(r, result) ==
    /\ UNCHANGED currentAnalysis
    /\ currentCacheKey' = Get(result, "cache_key")
    /\ analysisResult' = displayAnalysis(Get(result, "analysis"))
    /\ generateDocumentBtn' = [generateDocumentBtn EXCEPT !.disabled = FALSE]
    /\ generateTestBtn' = [disabled |-> FALSE]
    /\ applied' = [latest |-> IF r.id > applied.latest THEN r.id ELSE applied.latest,
                   stale |-> r.id < applied.latest]

\* the success branch of handleAnalyze and of handleFileUpload, for the
\* result of request r: the session fields are overwritten, the analysis is
\* displayed (which enables the document button) and the test button enabled
storeAnalysis(r, result) ==
    /\ currentAnalysis' = Get(result, "analysis")
    /\ currentCacheKey' = Get(result, "cache_key")
    /\ analysisResult' = displayAnalysis(Get(result, "analysis"))
    /\ generateDocumentBtn' = [generateDocumentBtn EXCEPT !.disabled = FALSE]
    /\ generateTestBtn' = [disabled |-> FALSE]
    /\ applied' = [latest |-> IF r.id > applied.latest THEN r.id ELSE applied.latest,
                   stale |-> r.id < applied.latest]

\* the error branches also forgetting the stored result
ApplyAnalysis_ClearsOnError(r, s, prefix, fallback) ==
    /\ requests' = requests \ {r}
    /\ CASE Outcome(s) = "success" -> storeAnalysis(r, s.body)
         [] Outcome(s) = "failure" ->
              /\ analysisResult' = showError(Or(Get(s.body, "error"), fallback))
              /\ currentAnalysis' = Null /\ currentCacheKey' = Null
              /\ UNCHANGED <<generateTestBtn, generateDocumentBtn, applied>>
         [] Outcome(s) = "thrown" ->
              /\ analysisResult' = showError(prefix \o ErrorMessage(s))
              /\ currentAnalysis' = Null /\ currentCacheKey' = Null
              /\ UNCHANGED <<generateTestBtn, generateDocumentBtn, applied>>
    /\ loadingOverlay' = showLoading(FALSE)
    /\ UNCHANGED <<currentFiles, fileUpload, testResults, banner, nextId>>

\* what handleAnalyze and handleFileUpload do once their fetch has settled;
\* the two handlers differ in their messages only
ApplyAnalysis(r, s, prefix, fallback) ==
    /\ requests' = requests \ {r}
    /\ CASE Outcome(s) = "success" -> storeAnalysis(r, s.body)
         [] Outcome(s) = "failure" ->
              /\ analysisResult' = showError(Or(Get(s.body, "error"), fallback))
              /\ UNCHANGED <<currentAnalysis, currentCacheKey, generateTestBtn,
                             generateDocumentBtn, applied>>
         [] Outcome(s) = "thrown" ->
              /\ analysisResult' = showError(prefix \o ErrorMessage(s))
              /\ UNCHANGED <<currentAnalysis, currentCacheKey, generateTestBtn,
                             generateDocumentBtn, applied>>
    /\ loadingOverlay' = showLoading(FALSE)
    /\ UNCHANGED <<currentFiles, fileUpload, testResults, banner, nextId>>

handleAnalyzeResume(r, s) ==
    /\ r \in requests /\ r.op = "analyze"
    /\ lastEvent' = [handler |-> "handleAnalyze", phase |-> "resumed", settled |-> s]
    /\ ApplyAnalysis(r, s, "Network error: ", "Analysis failed")

(* -------------------------- handleFileUpload --------------------------- *)

\* the change event of the file input, after the user picked n files
handleFileUpload(n) ==
    /\ fileUpload' = n
    /\ lastEvent' = [handler |-> "handleFileUpload", phase |-> "invoked"]
    /\ IF n = 0
       THEN UNCHANGED <<loadingOverlay, requests, nextId>>
       ELSE /\ loadingOverlay' = showLoading(TRUE)
            /\ requests' = requests \cup
                   {[id |-> nextId, op |-> "upload", body |-> [file |-> n]]}
            /\ nextId' = nextId + 1
    /\ UNCHANGED <<session, analysisResult, testResults, generateTestBtn,
                   generateDocumentBtn, banner, applied>>

handleFileUploadResume(r, s) ==
    /\ r \in requests /\ r.op = "upload"
    /\ lastEvent' = [handler |-> "handleFileUpload", phase |-> "resumed", settled |-> s]
    /\ ApplyAnalysis(r, s, "Upload error: ", "File upload failed")

(* ------------------------- handleGenerateTests ------------------------- *)

\* the local check left out
NoCacheKey_Unchecked(cacheKey) == FALSE

\* the local check of both generate handlers
NoCacheKey(cacheKey) == Falsy(cacheKey)

\* a click reaches the handler only while the button is not disabled
handleGenerateTests ==
    /\ ~generateTestBtn.disabled
    /\ lastEvent' = [handler |-> "handleGenerateTests", phase |-> "invoked"]
    /\ IF NoCacheKey(currentCacheKey)
       THEN /\ analysisResult' = showError("Please analyze code first")
            /\ UNCHANGED <<loadingOverlay, requests, nextId>>
       ELSE /\ loadingOverlay' = showLoading(TRUE)
            /\ requests' = requests \cup
                   {[id |-> nextId, op |-> "generate-tests",
                     body |-> [cache_key |-> currentCacheKey]]}
            /\ nextId' = nextId + 1
            /\ UNCHANGED analysisResult
    /\ UNCHANGED <<session, fileUpload, testResults, generateTestBtn, generateDocumentBtn,
                   banner, applied>>

handleGenerateTestsResume(r, s) ==
    /\ r \in requests /\ r.op = "generate-tests"
    /\ lastEvent' = [handler |-> "handleGenerateTests", phase |-> "resumed", settled |-> s]
    /\ requests' = requests \ {r}
    /\ CASE Outcome(s) = "success" ->
              /\ testResults' = displayTestResults(Get(s.body, "test_files"),
                                                   Get(s.body, "download_url"),
                                                   Get(s.body, "total_files"))
              /\ UNCHANGED analysisResult
         [] Outcome(s) = "failure" ->
              /\ analysisResult' = showError(Or(Get(s.body, "error"), "Test generation failed"))
              /\ UNCHANGED testResults
         [] Outcome(s) = "thrown" ->
              /\ analysisResult' = showError("Generation error: " \o ErrorMessage(s))
              /\ UNCHANGED testResults
    /\ loadingOverlay' = showLoading(FALSE)
    /\ UNCHANGED <<session, fileUpload, generateTestBtn, generateDocumentBtn, banner,
                   nextId, applied>>

(* ------------------------ handleGenerateDocument ----------------------- *)

handleGenerateDocument ==
    /\ ~generateDocumentBtn.disabled
    /\ lastEvent' = [handler |-> "handleGenerateDocument", phase |-> "invoked"]
    /\ IF NoCacheKey(currentCacheKey)
       THEN /\ analysisResult' = showError("Please analyze code first")
            /\ UNCHANGED <<generateDocumentBtn, requests, nextId>>
       ELSE /\ generateDocumentBtn' =
                   [disabled |-> TRUE, loading |-> TRUE, innerHTML |-> GeneratingLabel]
            /\ requests' = requests \cup
                   {[id |-> nextId, op |-> "generate-document",
                     body |-> [cache_key |-> currentCacheKey],
                     originalText |-> generateDocumentBtn.innerHTML]}
            /\ nextId' = nextId + 1
            /\ UNCHANGED analysisResult
    /\ UNCHANGED <<session, fileUpload, testResults, loadingOverlay, generateTestBtn,
                   banner, applied>>

\* showDocumentSuccess for the download of request r: an existing banner is
\* removed, the new one appended and its removal timer started
showDocumentSuccess(r) ==
    LET successMsg == r.id
        \* querySelector finds the first banner of the section, if any
        withoutExisting == IF documentSuccess = << >> THEN documentSuccess
                           ELSE Tail(documentSuccess)
    IN  /\ documentSuccess' = Append(withoutExisting, successMsg)
        /\ timers' = timers \cup {successMsg}

handleGenerateDocumentResume(r, s) ==
    /\ r \in requests /\ r.op = "generate-document"
    /\ lastEvent' = [handler |-> "handleGenerateDocument", phase |-> "resumed", settled |-> s]
    /\ requests' = requests \ {r}
    /\ CASE Outcome(s) = "success" ->
              \* the temporary download link is clicked
              /\ download' = Get(s.body, "filename")
              /\ showDocumentSuccess(r)
              /\ UNCHANGED analysisResult
         [] Outcome(s) = "failure" ->
              /\ analysisResult' =
                     showError(Or(Get(s.body, "error"), "Document generation failed"))
              /\ UNCHANGED banner
         [] Outcome(s) = "thrown" ->
              /\ analysisResult' = showError("Document generation error: " \o ErrorMessage(s))
              /\ UNCHANGED banner
    /\ generateDocumentBtn' =
           [disabled |-> FALSE, loading |-> FALSE, innerHTML |-> r.originalText]
    /\ UNCHANGED <<session, fileUpload, testResults, loadingOverlay, generateTestBtn,
                   nextId, applied>>

\* variant: the callback removes whichever banner is shown
removeDocumentSuccess_AnyBanner(b) ==
    /\ b \in timers
    /\ lastEvent' = [handler |-> "setTimeout", phase |-> "invoked"]
    /\ timers' = timers \ {b}
    /\ documentSuccess' = << >>
    /\ UNCHANGED <<session, fileUpload, analysisResult, testResults, loadingOverlay,
                   generateTestBtn, generateDocumentBtn, download, requests, nextId,
                   applied>>

\* the setTimeout callback of showDocumentSuccess for banner b
removeDocumentSuccess(b) ==
    /\ b \in timers
    /\ lastEvent' = [handler |-> "setTimeout", phase |-> "invoked"]
    /\ timers' = timers \ {b}
    \* a banner already detached has no parentNode and is left alone
    /\ documentSuccess' = SelectSeq(documentSuccess, LAMBDA m : m # b)
    /\ UNCHANGED <<session, fileUpload, analysisResult, testResults, loadingOverlay,
                   generateTestBtn, generateDocumentBtn, download, requests, nextId,
                   applied>>

(* ------------------------------ Next ----------------------------------- *)

Analyze == (\E i \in AnalyzeInputs : handleAnalyze(i[1], i[2], i[3])) /\ UNCHANGED formatter
AnalyzeSettled ==
    /\ \E r \in requests : \E s \in Settlements(AnalysisBodies) : handleAnalyzeResume(r, s)
    /\ UNCHANGED formatter
Upload == (\E n \in FileSelections : handleFileUpload(n)) /\ UNCHANGED formatter
UploadSettled ==
    /\ \E r \in requests : \E s \in Settlements(AnalysisBodies) : handleFileUploadResume(r, s)
    /\ UNCHANGED formatter
GenerateTests == handleGenerateTests /\ UNCHANGED formatter
GenerateTestsSettled ==
    /\ \E r \in requests : \E s \in Settlements(TestBodies) : handleGenerateTestsResume(r, s)
    /\ UNCHANGED formatter
GenerateDocument == handleGenerateDocument /\ UNCHANGED formatter
GenerateDocumentSettled ==
    /\ \E r \in requests : \E s \in Settlements(DocumentBodies) :
          handleGenerateDocumentResume(r, s)
    /\ UNCHANGED formatter
BannerTimeout == (\E b \in timers : removeDocumentSuccess(b)) /\ UNCHANGED formatter

\* displayAnalysis parsing the detailed analysis and building the blocks of
\* its sections
DisplaySections ==
    /\ detailedAnalysis # Null /\ parsedSections = Null
    /\ parsedSections' = parseDetailedAnalysis(detailedAnalysis)
    /\ sectionsHtml' = renderSections(parsedSections')
    /\ UNCHANGED <<page, detailedAnalysis>>

\* one step of the page: an event handler runs, or a settled fetch resumes one
Next ==
    \/ Analyze /\ WithinBounds(MaxRequests)'
    \/ AnalyzeSettled
    \/ Upload /\ WithinBounds(MaxRequests)'
    \/ UploadSettled
    \/ GenerateTests /\ WithinBounds(MaxRequests)'
    \/ GenerateTestsSettled
    \/ GenerateDocument /\ WithinBounds(MaxRequests)'
    \/ GenerateDocumentSettled
    \/ BannerTimeout

\* the same steps in a run that may issue one request more
NextLong ==
    \/ Analyze /\ WithinBounds(MaxLongRequests)'
    \/ AnalyzeSettled
    \/ Upload /\ WithinBounds(MaxLongRequests)'
    \/ UploadSettled
    \/ GenerateTests /\ WithinBounds(MaxLongRequests)'
    \/ GenerateTestsSettled
    \/ GenerateDocument /\ WithinBounds(MaxLongRequests)'
    \/ GenerateDocumentSettled
    \/ BannerTimeout

Spec == Init /\ [][Next]_vars

\* every fetch settles: the browser resolves or rejects each one, and the
\* handler suspended on it resumes
Responsive ==
    /\ WF_vars(AnalyzeSettled)
    /\ WF_vars(UploadSettled)
    /\ WF_vars(GenerateTestsSettled)
    /\ WF_vars(GenerateDocumentSettled)

\* the same steps in a run that issues fewer requests
NextShort ==
    \/ Analyze /\ WithinBounds(MaxShortRequests)'
    \/ AnalyzeSettled
    \/ Upload /\ WithinBounds(MaxShortRequests)'
    \/ UploadSettled
    \/ GenerateTests /\ WithinBounds(MaxShortRequests)'
    \/ GenerateTestsSettled
    \/ GenerateDocument /\ WithinBounds(MaxShortRequests)'
    \/ GenerateDocumentSettled
    \/ BannerTimeout

SpecResponsive == Init /\ [][NextShort]_vars /\ Responsive

SpecLong == Init /\ [][NextLong]_vars

\* every timer started by showDocumentSuccess fires (setTimeout, 5 s)
TimersFire == WF_vars(BannerTimeout)
SpecTimers == Init /\ [][Next]_vars /\ TimersFire

NextFormat == DisplaySections

\* the formatter applied to each of the texts
SpecFormat == InitFormat /\ [][NextFormat]_vars

(* ------------------------------ claims --------------------------------- *)

\* requests issued and requests settled by a step
Issued == requests' \ requests
Settled == requests \ requests'

GenerateOps == {"generate-tests", "generate-document"}
GenerateHandlers == {"handleGenerateTests", "handleGenerateDocument"}
KeyIsSet(k) == k # Null /\ k # Undefined /\ k # ""

\* C1: a /generate-tests or /generate-document request is issued only when
\* currentCacheKey is set, and its body carries the key held at the click;
\* a generate handler that runs without a key shows 'Please analyze code
\* first' and issues nothing.
C1_GenerateNeedsCacheKey ==
    [][ /\ \A r \in Issued :
              r.op \in GenerateOps =>
                  KeyIsSet(currentCacheKey) /\ r.body = [cache_key |-> currentCacheKey]
        /\ ( /\ lastEvent'.handler \in GenerateHandlers
             /\ lastEvent'.phase = "invoked"
             /\ ~KeyIsSet(currentCacheKey) )
           => /\ requests' = requests
              /\ analysisResult' = [kind |-> "error", content |-> "Please analyze code first"]
      ]_vars

\* C1 witness: a generate request is in flight right after its click, with
\* the session's key in its body
C1_Witness ==
    /\ lastEvent.handler \in GenerateHandlers /\ lastEvent.phase = "invoked"
    /\ \E r \in requests : r.op \in GenerateOps /\ r.id = nextId - 1
                           /\ r.body.cache_key = currentCacheKey
    /\ KeyIsSet(currentCacheKey)

\* C2: with gitUrl and manualCode empty after trimming and no files selected,
\* handleAnalyze issues no request, shows the 'Please provide code ...' error
\* and leaves currentAnalysis, currentCacheKey and the overlay as they were.
C2_AnalyzeWithoutCode ==
    [][ \A i \in AnalyzeInputs :
            ( /\ handleAnalyze(i[1], i[2], i[3])
              /\ Trim(i[1]) = << >> /\ Trim(i[3]) = << >>
              /\ fileUpload = 0 )
            => /\ requests' = requests
               /\ analysisResult' =
                     [kind |-> "error",
                      content |-> "Please provide code via Git URL, manual input, or file upload."]
               /\ UNCHANGED <<currentAnalysis, currentCacheKey, loadingOverlay>>
      ]_vars

\* C2 witness: handleAnalyze has just failed its validation, nothing was sent
C2_Witness ==
    /\ lastEvent = [handler |-> "handleAnalyze", phase |-> "invoked"]
    /\ analysisResult.kind = "error"
    /\ analysisResult.content =
           "Please provide code via Git URL, manual input, or file upload."
    /\ fileUpload = 0 /\ requests = {} /\ nextId = 1

\* C3 (the clause the code falls short of): handleAnalyze passes its local
\* validation and issues the /analyze request when at least one uploaded file
\* is present, whatever the text fields hold.
C3_UploadedFilesSuffice ==
    [][ \A i \in AnalyzeInputs :
            (handleAnalyze(i[1], i[2], i[3]) /\ fileUpload > 0)
            => \E r \in Issued : r.op = "analyze"
      ]_vars

\* the messages of the four handlers
ErrorPrefix ==
    [handleAnalyze |-> "Network error: ", handleFileUpload |-> "Upload error: ",
     handleGenerateTests |-> "Generation error: ",
     handleGenerateDocument |-> "Document generation error: "]
ErrorFallback ==
    [handleAnalyze |-> "Analysis failed", handleFileUpload |-> "File upload failed",
     handleGenerateTests |-> "Test generation failed",
     handleGenerateDocument |-> "Document generation failed"]
TransportMessages == {"Failed to fetch", "Unexpected token < in JSON"}
GenericErrors(h) ==
    {[kind |-> "error", content |-> ErrorPrefix[h] \o m] : m \in TransportMessages}

\* the stored and rendered results of the success paths are left alone
NoSuccessPath ==
    UNCHANGED <<currentAnalysis, currentCacheKey, testResults, documentSuccess, download>>

\* C4 as stated: a non-2xx response, a rejected fetch or a body that is not
\* JSON always ends in one of the handler's own generic messages (its
\* prefixed transport message, or its fallback), never on the success path
\* and never with a server-supplied text.
C4_NonOkIsGenericError ==
    [][ ( /\ lastEvent'.phase = "resumed"
          /\ \/ lastEvent'.settled.kind = "reject"
             \/ ~lastEvent'.settled.ok
             \/ ~lastEvent'.settled.body.json )
        => /\ analysisResult' \in
                  GenericErrors(lastEvent'.handler) \cup
                  {[kind |-> "error", content |-> ErrorFallback[lastEvent'.handler]]}
           /\ NoSuccessPath
      ]_vars

\* the success path of handler h was taken for the JSON body b
SuccessPathTaken(h, b) ==
    CASE h \in {"handleAnalyze", "handleFileUpload"} ->
            /\ currentAnalysis' = b.analysis
            /\ currentCacheKey' = b.cache_key
            /\ analysisResult' = [kind |-> "analysis", content |-> b.analysis]
      [] h = "handleGenerateTests" ->
            testResults' = [kind |-> "tests", test_files |-> b.test_files,
                            download_url |-> b.download_url, total_files |-> b.total_files]
      [] h = "handleGenerateDocument" ->
            /\ download' = b.filename
            /\ documentSuccess' # << >>
            /\ documentSuccess'[Len(documentSuccess')] \in {r.id : r \in Settled}

\* the text shown for the success:false body b by handler h
FailureText(h, b) ==
    IF "error" \in DOMAIN b /\ b.error # "" THEN b.error ELSE ErrorFallback[h]

\* C4 as amended: a rejected fetch or a body that is not JSON, whatever the
\* status, ends in the handler's generic message (its prefix and the
\* underlying message) and off the success path; a non-2xx response whose
\* body is JSON is handled by its body as a 2xx one is: success path for
\* success true, else the server's error text or the handler's fallback.
C4_TransportErrorsAreGeneric ==
    [][ lastEvent'.phase = "resumed" =>
          LET h == lastEvent'.handler
              s == lastEvent'.settled
          IN  /\ s.kind = "reject" =>
                    /\ analysisResult' =
                          [kind |-> "error", content |-> ErrorPrefix[h] \o "Failed to fetch"]
                    /\ NoSuccessPath
              /\ (s.kind = "http" /\ ~s.body.json) =>
                    /\ analysisResult' =
                          [kind |-> "error",
                           content |-> ErrorPrefix[h] \o "Unexpected token < in JSON"]
                    /\ NoSuccessPath
              /\ (s.kind = "http" /\ ~s.ok /\ s.body.json) =>
                    IF s.body.success
                    THEN SuccessPathTaken(h, s.body)
                    ELSE /\ analysisResult' =
                               [kind |-> "error", content |-> FailureText(h, s.body)]
                         /\ NoSuccessPath
      ]_vars

\* C4 witness: a non-2xx response with a body that is not JSON has just been
\* handled and the generic message is on the panel
C4_Witness ==
    /\ lastEvent.phase = "resumed"
    /\ lastEvent.settled.kind = "http"
    /\ ~lastEvent.settled.ok /\ ~lastEvent.settled.body.json
    /\ analysisResult \in GenericErrors(lastEvent.handler)

DocumentInFlight == \E r \in requests : r.op = "generate-document"

\* C5: once no /generate-document request is in flight any more, the document
\* button is restored: no 'loading' class, the label it had before document
\* generation started, and enabled (document generation started only after a
\* key was stored).
C5_DocumentButtonRestored ==
    ~DocumentInFlight =>
        /\ ~generateDocumentBtn.loading
        /\ generateDocumentBtn.innerHTML = OriginalLabel
        /\ (KeyIsSet(currentCacheKey) => ~generateDocumentBtn.disabled)

\* C6: while a /generate-document request is in flight the document button
\* is disabled and relabeled, so at most one such request is in flight.
C6_DocumentButtonDisabledInFlight ==
    /\ DocumentInFlight =>
          /\ generateDocumentBtn.disabled
          /\ generateDocumentBtn.innerHTML = GeneratingLabel
    /\ Cardinality({r \in requests : r.op = "generate-document"}) <= 1

\* C7 as stated: whenever a request of any of the four operations is in
\* flight, the loading overlay is visible.
C7_OverlayWhileInFlight == requests # {} => loadingOverlay = "flex"

OverlayOps == {"analyze", "upload", "generate-tests"}

\* C7 as amended: analyze, upload and generate-tests show the overlay when
\* they issue their request and hide it when their own response has been
\* handled, also while another request is still in flight; generate-document
\* and everything else leave the overlay as it is.
C7_OverlayFollowsLastToggle ==
    [][ /\ (\E r \in Issued : r.op \in OverlayOps) => loadingOverlay' = "flex"
        /\ (\E r \in Settled : r.op \in OverlayOps) => loadingOverlay' = "none"
        /\ (\A r \in Issued \cup Settled : r.op \notin OverlayOps) =>
              loadingOverlay' = loadingOverlay
      ]_vars

\* C7 witness: two operations overlapped, the first to settle hid the overlay
\* and the other one is still in flight
C7_Witness ==
    /\ lastEvent.phase = "resumed"
    /\ lastEvent.handler # "handleGenerateDocument"
    /\ \E r \in requests : r.op \in OverlayOps
    /\ loadingOverlay = "none"

AnalysisHandlers == {"handleAnalyze", "handleFileUpload"}

\* the handler that ran last resumed on a JSON body with success true / false
ResumedOnSuccess(e) ==
    /\ e.phase = "resumed" /\ e.settled.kind = "http"
    /\ e.settled.body.json /\ e.settled.body.success
ResumedOnFailure(e) ==
    /\ e.phase = "resumed" /\ e.settled.kind = "http"
    /\ e.settled.body.json /\ ~e.settled.body.success

\* C8: overlapping analyze/upload requests are not guarded: the successful
\* response of a request issued before one whose result was already applied
\* still overwrites currentAnalysis and currentCacheKey when it arrives.
C8_StaleResponseOverwrites ==
    [][ \A r \in Settled :
            ( /\ r.op \in {"analyze", "upload"}
              /\ r.id < applied.latest
              /\ ResumedOnSuccess(lastEvent') )
            => /\ currentAnalysis' = lastEvent'.settled.body.analysis
               /\ currentCacheKey' = lastEvent'.settled.body.cache_key
               /\ applied'.stale
      ]_vars

\* C8 witness: every request has completed and the session holds the result
\* of a request issued before another one that also completed successfully
C8_Witness ==
    /\ requests = {}
    /\ applied.stale
    /\ ResumedOnSuccess(lastEvent)
    /\ lastEvent.handler \in AnalysisHandlers
    /\ currentAnalysis = lastEvent.settled.body.analysis
    /\ currentCacheKey = lastEvent.settled.body.cache_key

\* C9: a success:true response to /analyze or /upload is stored as
\* currentAnalysis and currentCacheKey, rendered in the panel, and enables
\* the test button; once such a success has happened, a click on either
\* generate button passes the local key check and issues its request.
C9_SuccessStoresAndEnables ==
    [][ /\ (lastEvent'.handler \in AnalysisHandlers /\ ResumedOnSuccess(lastEvent'))
           => /\ currentAnalysis' = lastEvent'.settled.body.analysis
              /\ currentCacheKey' = lastEvent'.settled.body.cache_key
              /\ analysisResult' =
                    [kind |-> "analysis", content |-> lastEvent'.settled.body.analysis]
              /\ ~generateTestBtn'.disabled
        /\ ( /\ applied.latest > 0
             /\ lastEvent'.handler \in GenerateHandlers
             /\ lastEvent'.phase = "invoked" )
           => /\ \E r \in Issued : r.op \in GenerateOps
              /\ analysisResult' = analysisResult
      ]_vars

\* C9 witness: a successful /analyze or /upload response has just been
\* applied: stored, rendered, test button enabled
C9_Witness ==
    /\ lastEvent.handler \in AnalysisHandlers /\ ResumedOnSuccess(lastEvent)
    /\ currentCacheKey = lastEvent.settled.body.cache_key
    /\ analysisResult = [kind |-> "analysis", content |-> currentAnalysis]
    /\ ~generateTestBtn.disabled

\* C10: after /analyze answered success:false, the panel shows exactly the
\* error text of the body when it has a non-empty one, and 'Analysis failed'
\* when the error field is missing or empty.
C10_AnalyzeFailureMessage ==
    (lastEvent.handler = "handleAnalyze" /\ ResumedOnFailure(lastEvent)) =>
        LET b == lastEvent.settled.body
        IN  analysisResult =
                [kind |-> "error",
                 content |-> IF "error" \in DOMAIN b /\ b.error # ""
                             THEN b.error ELSE "Analysis failed"]

\* C10 witness: /analyze answered {success:false, error:"bad url"} and the
\* panel shows "bad url"
C10_Witness ==
    /\ lastEvent.handler = "handleAnalyze" /\ ResumedOnFailure(lastEvent)
    /\ "error" \in DOMAIN lastEvent.settled.body
    /\ lastEvent.settled.body.error = "bad url"
    /\ analysisResult = [kind |-> "error", content |-> "bad url"]

\* the handler that ran last ended in an error: its local validation failed
\* (nothing was issued), or its fetch settled to anything but success:true
EndedInError(e, issued) ==
    \/ /\ e.phase = "invoked"
       /\ e.handler \in {"handleAnalyze"} \cup GenerateHandlers
       /\ issued = {}
    \/ /\ e.phase = "resumed"
       /\ ~ResumedOnSuccess(e)

AnalysisErrorTexts ==
    {"Analysis failed", "bad url", "Network error: Failed to fetch",
     "Network error: Unexpected token < in JSON"}

\* C11: the analysis panel always holds nothing, one analysis or one error,
\* never an error together with an analysis; a handler that ends in an error
\* leaves exactly its error on the panel whatever was shown before, and a
\* successful analysis leaves exactly that analysis, also over an error.
C11_PanelShowsOneThing ==
    [][ /\ analysisResult'.kind \in {"initial", "error", "analysis"}
        /\ analysisResult' # analysisResult => analysisResult'.kind \in {"error", "analysis"}
        /\ EndedInError(lastEvent', Issued) => analysisResult'.kind = "error"
        /\ (lastEvent'.handler \in AnalysisHandlers /\ ResumedOnSuccess(lastEvent'))
             => analysisResult' = [kind |-> "analysis",
                                   content |-> lastEvent'.settled.body.analysis]
      ]_vars

\* C11 witness: an analysis had been displayed and a later failed analyze has
\* put its error in its place
C11_Witness ==
    /\ currentAnalysis # Null
    /\ lastEvent.handler = "handleAnalyze" /\ ResumedOnFailure(lastEvent)
    /\ analysisResult.kind = "error"

\* C18: currentAnalysis and currentCacheKey are both null or both taken from
\* one and the same successful response, and an analysis shown on the panel
\* is the one stored in currentAnalysis.
C18_SessionFromOneResponse ==
    /\ \/ currentAnalysis = Null /\ currentCacheKey = Null
       \/ \E res \in Results :
             currentAnalysis = res.analysis /\ currentCacheKey = res.cache_key
    /\ analysisResult.kind = "analysis" => analysisResult.content = currentAnalysis

\* C18 witness: two different results have been applied one after the other
\* and the panel shows the stored one
C18_Witness ==
    /\ applied.stale
    /\ currentAnalysis = "analysis1" /\ currentCacheKey = "key1"
    /\ analysisResult = [kind |-> "analysis", content |-> "analysis1"]
    /\ ResumedOnSuccess(lastEvent)
    /\ lastEvent.settled.body.analysis = "analysis1"

\* C19: a handler that ends in an error (validation, success:false,
\* rejection or a body that is not JSON) leaves currentAnalysis and
\* currentCacheKey as they were and disables neither generate button; a
\* generate request issued afterwards carries the key still held.
C19_ErrorKeepsSession ==
    [][ /\ EndedInError(lastEvent', Issued) =>
              /\ UNCHANGED <<currentAnalysis, currentCacheKey>>
              /\ ~generateTestBtn.disabled => ~generateTestBtn'.disabled
              /\ ~generateDocumentBtn.disabled => ~generateDocumentBtn'.disabled
        /\ \A r \in Issued :
              r.op \in GenerateOps => r.body.cache_key = currentCacheKey'
      ]_vars

\* C19 witness: after a successful analysis a later analyze failed; its error
\* is on the panel, the earlier key is held and a generate request carrying
\* it has just been issued
C19_Witness ==
    /\ applied.latest > 0
    /\ analysisResult.kind = "error" /\ analysisResult.content \in AnalysisErrorTexts
    /\ lastEvent.handler \in GenerateHandlers /\ lastEvent.phase = "invoked"
    /\ \E r \in requests : /\ r.op \in GenerateOps /\ r.id = nextId - 1
                           /\ r.body.cache_key = currentCacheKey
                           /\ KeyIsSet(currentCacheKey)

OverlayInFlight == \E r \in requests : r.op \in OverlayOps

\* C20: whenever no analyze, upload or generate-tests request is in flight
\* the overlay is hidden, and when every fetch settles a shown overlay is
\* eventually hidden again.
C20_OverlayEventuallyHidden ==
    /\ [](~OverlayInFlight => loadingOverlay = "none")
    /\ (loadingOverlay = "flex") ~> (loadingOverlay = "none")

\* C20 witness: overlapping operations with mixed outcomes have all completed
\* and the overlay is hidden
C20_Witness ==
    /\ requests = {} /\ nextId > 2
    /\ lastEvent.phase = "resumed" /\ ~ResumedOnSuccess(lastEvent)
    /\ lastEvent.handler # "handleGenerateDocument"
    /\ applied.latest > 0
    /\ loadingOverlay = "none"

\* the banners present in the document section
Banners == Range(documentSuccess)
\* the banners whose removal timer fires in this step
TimersFired == timers \ timers'
\* the banners created in this step
BannersCreated == timers' \ timers

\* C21: at most one document-success banner is present in the document
\* section at any time: a successful generation leaves its own banner as the
\* only one; the removal timer of a banner removes that banner if it is still
\* present and never any other banner; every banner present has its own
\* timer pending; and, with timers that do fire, every banner that is shown
\* is eventually gone from the document section.
C21_OneBannerOwnTimer ==
    /\ [][ /\ Len(documentSuccess') <= 1
           /\ \A b \in BannersCreated : documentSuccess' = <<b>>
           /\ \A b \in TimersFired :
                 documentSuccess' = SelectSeq(documentSuccess, LAMBDA m : m # b)
           /\ \A b \in Range(documentSuccess') : b \in timers'
         ]_vars
    /\ \A b \in 1 .. MaxRequests : (b \in Banners) ~> (b \notin Banners)

\* C21 witness: the timer of an earlier banner has just fired while the
\* banner of a later successful generation is shown, and that banner is
\* still there with its own timer pending
C21_Witness ==
    /\ lastEvent.handler = "setTimeout"
    /\ documentSuccess # << >>
    /\ Banners \subseteq timers

(* ------------------- claims about the text formatter ------------------- *)

\* displayAnalysis has parsed and rendered the text
Displayed == parsedSections # Null

\* the lines of the text as parseDetailedAnalysis looks at them, and the
\* content lines among them: not blank and not starting with #
InputLines ==
    LET ls == split(detailedAnalysis, NewLine) IN [i \in DOMAIN ls |-> Trim(ls[i])]
HeaderLines == {InputLines[i] : i \in {k \in DOMAIN InputLines : isSectionHeader(InputLines[k])}}
NoHeaderLines == HeaderLines = {}
ContentLines == SelectSeq(InputLines, LAMBDA l : l # << >> /\ Head(l) # "#")

\* a paragraph and a list as formatSectionContent writes them
Paragraph(text) == <<POpen>> \o text \o <<PClose>>
RECURSIVE Items(_)
Items(texts) ==
    IF texts = << >> THEN << >>
    ELSE <<LiOpen>> \o Head(texts) \o <<LiClose>> \o Items(Tail(texts))
List(texts) == <<UlOpen>> \o Items(texts) \o <<UlClose>>

\* the number of paragraphs and list items in a formatted content
Shown(content) == Cardinality({k \in DOMAIN content : content[k] \in {POpen, LiOpen}})

\* C12: for "1. OVERVIEW\nGood code.\n2. ISSUES\n- too long\n- no tests\n"
\* parseDetailedAnalysis returns the section "Overview" with the paragraph
\* "Good code." and then the section "Issues" with the list of "too long"
\* and "no tests"; and a numbered all-caps line of 10 or more characters is
\* a section header.
C12_ScenarioTwoSections ==
    Displayed =>
        /\ detailedAnalysis = ScenarioText =>
              parsedSections =
                  <<[title |-> <<"O", "v", "e", "r", "v", "i", "e", "w">>,
                     content |-> Paragraph(<<"G", "o", "o", "d", " ", "c", "o", "d", "e", ".">>)],
                    [title |-> <<"I", "s", "s", "u", "e", "s">>,
                     content |-> List(<<<<"t", "o", "o", " ", "l", "o", "n", "g">>,
                                        <<"n", "o", " ", "t", "e", "s", "t", "s">>>>)]>>
        /\ \A i \in DOMAIN InputLines :
              LET line == InputLines[i]
              IN  ( /\ OrdinalLen(line) > 0
                    /\ Len(line) >= 10
                    /\ \A k \in OrdinalLen(line) + 1 .. Len(line) : line[k] \in HeaderChars )
                  => isSectionHeader(line)

\* C13 as stated: a text without header lines gives exactly one section,
\* titled "General Analysis", whose content shows every line that is not
\* blank and does not start with #.
C13_OneGeneralSection ==
    (Displayed /\ NoHeaderLines) =>
        /\ Len(parsedSections) = 1
        /\ parsedSections[1].title = GeneralAnalysis
        /\ Shown(parsedSections[1].content) = Len(ContentLines)

\* lines joined as the section buffer holds them, each followed by a newline
RECURSIVE Buffer(_)
Buffer(ls) == IF ls = << >> THEN << >> ELSE Head(ls) \o <<NewLine>> \o Buffer(Tail(ls))

\* C13 as amended: a text without header lines gives no section when it has
\* no line that is not blank and does not start with #, and otherwise exactly
\* one section, titled "General Analysis", whose content is the formatting
\* of those lines, trimmed and in input order (so without the lines of at
\* most 5 characters, which formatting drops).
C13_GeneralSectionOfContentLines ==
    (Displayed /\ NoHeaderLines) =>
        IF ContentLines = << >> THEN parsedSections = << >>
        ELSE /\ Len(parsedSections) = 1
             /\ parsedSections[1].title = GeneralAnalysis
             /\ parsedSections[1].content = formatSectionContent(Buffer(ContentLines))
             /\ Shown(parsedSections[1].content) =
                   Len(SelectSeq(ContentLines, LAMBDA l : IsListLine(l) \/ Len(l) > 5))

\* C13 witness: a text of three lines without a header, one of them starting
\* with # and two of them shown, has been parsed into the one general section
C13_Witness ==
    /\ Displayed /\ NoHeaderLines
    /\ Len(InputLines) = 3 /\ Len(ContentLines) = 2
    /\ Len(parsedSections) = 1
    /\ parsedSections[1].title = GeneralAnalysis
    /\ Shown(parsedSections[1].content) = 2

\* the title the header line stands for: the line without its # markers,
\* its ordinal, its ** markers and its underscores, title-cased
TitleOf(line) ==
    LET unmarked == SelectSeq(line, LAMBDA c : c # "#")
        trimmed == Trim(unmarked)
        unnumbered == Drop(trimmed, OrdinalSpaceLen(trimmed))
        plain == SelectSeq(unnumbered, LAMBDA c : c # "*")
        spaced == [i \in DOMAIN plain |-> IF plain[i] = "_" THEN " " ELSE plain[i]]
    IN  TitleCase(Trim(spaced))

\* C14: the title of a section started by a header line is that line with
\* its ordinal prefix, ** markers, # markers and underscores removed and
\* title-cased, for every header shape.
C14_TitleIsCleanedHeader ==
    Displayed =>
        \A i \in DOMAIN parsedSections :
            parsedSections[i].title \in
                {GeneralAnalysis} \cup {TitleOf(line) : line \in HeaderLines}

\* C15: a section whose lines formatting all drops is skipped when
\* rendering: every block displayAnalysis builds shows a paragraph or a
\* list item of the text.
C15_EmptySectionsSkipped ==
    Displayed =>
        \A i \in DOMAIN sectionsHtml : Shown(sectionsHtml[i].body) > 0

\* the part of a formatted content that is inside its lists: the elements
\* from each list's opening tag to its closing tag
ListPart(content) ==
    LET Opened(k) == Cardinality({j \in 1 .. k : content[j] = UlOpen})
        Closed(k) == Cardinality({j \in 1 .. k - 1 : content[j] = UlClose})
        inside == {k \in DOMAIN content : Opened(k) > Closed(k)}
    IN  [i \in 1 .. Cardinality(inside) |->
            content[CHOOSE k \in inside : Cardinality({j \in inside : j <= k}) = i]]

\* the maximal runs of consecutive dash lines, each the sequence of its
\* lines without the dash and the blanks after it
RECURSIVE DashRuns(_, _, _)
DashRuns(lines, runs, run) ==
    IF lines = << >> THEN (IF run = << >> THEN runs ELSE Append(runs, run))
    ELSE LET line == Head(lines)
         IN  IF Head(line) = "-"
             THEN DashRuns(Tail(lines), runs,
                           Append(run, Drop(line, 1 + Span(Tail(line), WhiteSpace))))
             ELSE DashRuns(Tail(lines), IF run = << >> THEN runs ELSE Append(runs, run),
                           << >>)

RECURSIVE Lists(_)
Lists(runs) == IF runs = << >> THEN << >> ELSE List(Head(runs)) \o Lists(Tail(runs))

\* the bullets of the text are dashes
DashBullets ==
    \A i \in DOMAIN ContentLines : IsListLine(ContentLines[i]) => Head(ContentLines[i]) = "-"

\* C16: in the formatted content every maximal run of consecutive dash
\* lines is one list with one item per line, in input order, the item being
\* the line without its bullet prefix; each list is closed at the first line
\* after the run or at the end of the input.
C16_DashRunsAreLists ==
    (Displayed /\ NoHeaderLines /\ ContentLines # << >> /\ DashBullets) =>
        ListPart(parsedSections[1].content) = Lists(DashRuns(ContentLines, << >>, << >>))

\* the text left of a formatted content when its tags are stripped; a
\* placeholder paragraph leaves its sentence
BlockTags == {UlOpen, UlClose, LiOpen, LiClose, POpen, PClose}
StripTags(content) ==
    LET texts == SelectSeq(content, LAMBDA t : t \notin BlockTags)
    IN  [i \in DOMAIN texts |->
            CASE texts[i] = NoDetailedAnalysis -> "No detailed analysis available."
              [] texts[i] = NoSpecificAnalysis ->
                     "No specific analysis available for this section."
              [] OTHER -> texts[i]]

RECURSIVE Concat(_)
Concat(texts) == IF texts = << >> THEN << >> ELSE Head(texts) \o Concat(Tail(texts))

\* the text is made of plain paragraph lines: no header, no list line, no
\* line with # or * in it
ParagraphOnly ==
    /\ NoHeaderLines
    /\ \A i \in DOMAIN InputLines :
          LET line == InputLines[i]
          IN  line # << >> =>
                  /\ ~IsListLine(line)
                  /\ \A k \in DOMAIN line : line[k] \notin {"#", "*"}

\* C17: for a paragraph-only text, the formatted sections with their tags
\* stripped are exactly the lines of the text longer than 5 characters, in
\* their order.
C17_ParagraphRoundTrip ==
    (Displayed /\ ParagraphOnly) =>
        Concat([i \in DOMAIN parsedSections |-> StripTags(parsedSections[i].content)])
            = Concat(SelectSeq(InputLines, LAMBDA l : Len(l) > 5))

\* the number of lists open after the first k elements of the content
OpenLists(content, k) ==
    Cardinality({j \in 1 .. k : content[j] = UlOpen})
        - Cardinality({j \in 1 .. k : content[j] = UlClose})

ItemTags == {LiOpen, LiClose}
ParagraphTags == {POpen, PClose, NoSpecificAnalysis, NoDetailedAnalysis}

\* every list opened is closed, no list is opened inside a list and none is
\* closed that is not open, every item lies inside a list and every
\* paragraph outside
WellNestedLists(content) ==
    /\ \A k \in DOMAIN content :
          /\ OpenLists(content, k) \in {0, 1}
          /\ content[k] \in ItemTags => OpenLists(content, k) = 1
          /\ content[k] \in ParagraphTags => OpenLists(content, k) = 0
    /\ OpenLists(content, Len(content)) = 0

\* C22: the HTML produced by formatSectionContent is well nested with respect
\* to lists, for the whole text given to it as one content and for the
\* content of every section parsed from it: every <ul> opened is closed, also
\* when the input ends inside a list, lists are never nested, every <li> lies
\* between a <ul> and its </ul>, and no <p> lies inside an open list.
C22_ListsWellNested ==
    /\ WellNestedLists(formatSectionContent(detailedAnalysis))
    /\ Displayed =>
          \A i \in DOMAIN parsedSections : WellNestedLists(parsedSections[i].content)

\* C22 witness: a displayed section holds a list closed by the paragraph that
\* follows it and a second list that the end of the input closes
C22_Witness ==
    /\ Displayed
    /\ \E i \in DOMAIN parsedSections :
          LET content == parsedSections[i].content
          IN  /\ \E k \in 1 .. Len(content) - 1 :
                    content[k] = UlClose /\ content[k + 1] = POpen
              /\ content[Len(content)] = UlClose
              /\ Cardinality({k \in DOMAIN content : content[k] = UlOpen}) = 2

====
